---- MODULE Spec2Model ----
(***************************************************************************)
(* Release helper of virtuallyunknown/nx-monorepo (util/release).          *)
(*                                                                         *)
(* Strings are modelled as sequences of tokens: a token stands for a run   *)
(* of characters that the code never looks inside (a marker, a type word,  *)
(* "!", ":", a newline, a piece of free text).  The parser's split, regex  *)
(* match, startsWith and toLowerCase are computed on those sequences.      *)
(***************************************************************************)
EXTENDS Integers, Sequences, FiniteSets, TLC

(***************************************************************************)
(* Bounds                                                                  *)
(***************************************************************************)
MaxRecords == 2

(***************************************************************************)
(* gitConfig                                                               *)
(***************************************************************************)
commitTypeKeys ==
    <<"build", "chore", "ci", "docs", "feat", "fix", "perf", "refactor",
      "revert", "style", "test">>

commitTypeTitle(key) ==
    CASE key = "build"    -> "Build"
      [] key = "chore"    -> "Chores"
      [] key = "ci"       -> "CI"
      [] key = "docs"     -> "Documentation"
      [] key = "feat"     -> "Features"
      [] key = "fix"      -> "Fixes"
      [] key = "perf"     -> "Performance"
      [] key = "refactor" -> "Refactor"
      [] key = "revert"   -> "Revert"
      [] key = "style"    -> "Styles"
      [] key = "test"     -> "Testing"

markerBegin == "__BEGIN__"
markerBody  == "__BODY__"
markerFiles == "__FILES__"
markerDelim == "__DELIM__"
NL          == "\n"

(***************************************************************************)
(* JavaScript values: an optional value is a sequence of length 0          *)
(* (undefined) or 1 (the value).                                           *)
(***************************************************************************)
Undefined == <<>>
Some(v)   == <<v>>
IsDefined(o) == o # <<>>
Val(o)    == o[1]

(***************************************************************************)
(* String primitives on token sequences                                    *)
(***************************************************************************)
RECURSIVE Flatten(_)
Flatten(ss) ==
    IF ss = <<>> THEN <<>> ELSE Head(ss) \o Flatten(Tail(ss))

RECURSIVE Join(_, _)
Join(parts, sep) ==
    IF parts = <<>> THEN <<>>
    ELSE IF Len(parts) = 1 THEN parts[1]
    ELSE parts[1] \o <<sep>> \o Join(Tail(parts), sep)

\* String.prototype.split(separator): k occurrences give k+1 pieces.
RECURSIVE Split(_, _)
Split(s, d) ==
    IF \A i \in 1..Len(s) : s[i] # d
    THEN <<s>>
    ELSE LET i == CHOOSE k \in 1..Len(s) :
                     s[k] = d /\ \A j \in 1..(k - 1) : s[j] # d
         IN  <<SubSeq(s, 1, i - 1)>> \o Split(SubSeq(s, i + 1, Len(s)), d)

\* Array.prototype.filter(Boolean) on an array of strings: drops "".
RECURSIVE FilterNonEmpty(_)
FilterNonEmpty(parts) ==
    IF parts = <<>> THEN <<>>
    ELSE IF Head(parts) = <<>> THEN FilterNonEmpty(Tail(parts))
    ELSE <<Head(parts)>> \o FilterNonEmpty(Tail(parts))

\* Array.prototype.toSpliced(0, 1): a copy without the first element.
toSpliced01(arr) == IF arr = <<>> THEN <<>> ELSE Tail(arr)

\* lowerToken with the case folding left out
lowerTokenAsIs(t) == t

\* String.prototype.toLowerCase, token by token.
lowerToken(t) ==
    CASE t = "BREAKING CHANGE:" -> "breaking change:"
      [] t = "Breaking Change:" -> "breaking change:"
      [] OTHER -> t

toLowerCase(s) == [i \in 1..Len(s) |-> lowerToken(s[i])]

\* String.prototype.startsWith with a one-token needle.
startsWith(s, t) == Len(s) >= 1 /\ s[1] = t

\* String.prototype.trim on tokens: newlines are the only whitespace tokens.
RECURSIVE trimStart(_)
trimStart(s) ==
    IF s # <<>> /\ Head(s) = NL THEN trimStart(Tail(s)) ELSE s

RECURSIVE trimEnd(_)
trimEnd(s) ==
    IF s # <<>> /\ s[Len(s)] = NL THEN trimEnd(SubSeq(s, 1, Len(s) - 1)) ELSE s

trim(s) == trimEnd(trimStart(s))

\* The record pattern: a header without newline, the body marker, an
\* optional non-empty body, the files marker, an optional non-empty files
\* part.  Unanchored, leftmost match, greedy quantifiers with backtracking.
\* positions e such that s[st..e] is a run without newline (e = st-1: empty)
headerEnds(s, st) ==
    {e \in (st - 1)..Len(s) : \A j \in st..e : s[j] # NL}

\* a match that starts at st with header s[st..e] exists
matchesAt(s, st, e) ==
    /\ e + 1 <= Len(s)
    /\ s[e + 1] = markerBody
    /\ \E p \in (e + 2)..Len(s) : s[p] = markerFiles

MaxOf(S) == CHOOSE x \in S : \A y \in S : y <= x
MinOf(S) == CHOOSE x \in S : \A y \in S : x <= y

recordMatch(s) ==
    LET starts == {st \in 1..(Len(s) + 1) :
                      \E e \in headerEnds(s, st) : matchesAt(s, st, e)}
    IN  IF starts = {}
        THEN [matched |-> FALSE, header |-> Undefined,
              body |-> Undefined, files |-> Undefined]
        ELSE LET st == MinOf(starts)
                 e  == MaxOf({x \in headerEnds(s, st) : matchesAt(s, st, x)})
                 \* greedy body group: reach the last files marker that
                 \* leaves the group at least one character
                 far == {p \in (e + 3)..Len(s) : s[p] = markerFiles}
                 p  == IF far # {} THEN MaxOf(far) ELSE e + 2
             IN  [matched |-> TRUE,
                  header  |-> Some(SubSeq(s, st, e)),
                  body    |-> IF p > e + 2
                              THEN Some(SubSeq(s, e + 2, p - 1))
                              ELSE Undefined,
                  files   |-> IF p < Len(s)
                              THEN Some(SubSeq(s, p + 1, Len(s)))
                              ELSE Undefined]

(***************************************************************************)
(* Commit classification                                                   *)
(***************************************************************************)
IsCommitType(t) == \E i \in 1..Len(commitTypeKeys) : commitTypeKeys[i] = t

\* assertCommitType that never throws
assertCommitTypeAny(type) == TRUE

\* assertCommitType: TRUE when the assertion passes, FALSE when it throws.
\* The argument is an optional string (undefined when the subject pattern
\* did not match).
assertCommitType(type) == IsDefined(type) /\ IsCommitType(Val(type))

\* subject.match of the prefix pattern: a type word, an optional "!", ":".
subjectMatch(subject) ==
    IF Len(subject) >= 2 /\ IsCommitType(subject[1]) /\ subject[2] = ":"
    THEN [type |-> Some(subject[1]), breakingInType |-> Some(<<>>)]
    ELSE IF /\ Len(subject) >= 3 /\ IsCommitType(subject[1])
            /\ subject[2] = "!" /\ subject[3] = ":"
    THEN [type |-> Some(subject[1]), breakingInType |-> Some(<<"!">>)]
    ELSE [type |-> Undefined, breakingInType |-> Undefined]

\* breaking = breakingInType === '!' || (body?.toLowerCase().startsWith(..) ?? false)
isBreaking(m, body) ==
    \/ m.breakingInType = Some(<<"!">>)
    \/ IF IsDefined(body)
       THEN startsWith(toLowerCase(Val(body)), "breaking change:")
       ELSE FALSE

\* getCommitDetail(subject, body); subject and body are optional strings.
\* threw is "" on a normal return, else the error thrown: "TypeError" for
\* the match on an undefined subject, "CommitTypeError" for the Error of
\* assertCommitType.
getCommitDetail(subject, body) ==
    IF ~IsDefined(subject)
    THEN [threw |-> "TypeError", type |-> Undefined, breaking |-> FALSE]
    ELSE LET m == subjectMatch(Val(subject))
         IN  IF ~assertCommitType(m.type)
             THEN [threw |-> "CommitTypeError", type |-> Undefined,
                   breaking |-> FALSE]
             ELSE [threw |-> "", type |-> m.type,
                   breaking |-> isBreaking(m, body)]

\* parseInt(authorDateUnix) * 1000 handed to new Date; -1 stands for NaN
\* (an Invalid Date).  Seconds are kept small.
parseInt(str) ==
    IF ~IsDefined(str) THEN -1
    ELSE IF Val(str) = <<"17">> THEN 17
    ELSE IF Val(str) = <<"42">> THEN 42
    ELSE -1

authorDateOf(str) == IF parseInt(str) = -1 THEN -1 ELSE parseInt(str) * 1000

\* a value used as a property key: undefined reads as "undefined"
propertyKey(o) == IF IsDefined(o) THEN Val(o) ELSE "undefined"

\* array destructuring: the i-th element or undefined
elemAt(arr, i) == IF i <= Len(arr) THEN Some(arr[i]) ELSE Undefined

(***************************************************************************)
(* commitGroups: a JavaScript object, i.e. key/value entries in the order  *)
(* in which the keys were first assigned.                                  *)
(***************************************************************************)
hasKey(obj, k) == \E i \in 1..Len(obj) : obj[i].key = k

getKey(obj, k) ==
    IF hasKey(obj, k)
    THEN (obj[CHOOSE i \in 1..Len(obj) : obj[i].key = k]).commits
    ELSE <<>>

setKey(obj, k, v) ==
    IF hasKey(obj, k)
    THEN [i \in 1..Len(obj) |->
              IF obj[i].key = k THEN [key |-> k, commits |-> v] ELSE obj[i]]
    ELSE Append(obj, [key |-> k, commits |-> v])

\* setAdd on an array instead of a Set: every name is appended
setAddAlways(set, x) == Append(set, x)

\* Set.prototype.add: insertion order, no duplicates
setAdd(set, x) ==
    IF \E i \in 1..Len(set) : set[i] = x THEN set ELSE Append(set, x)

\* bucketOf with the breaking test left out
bucketOfTypeOnly(commit) == commit.type

\* the bucket a commit is appended to
bucketOf(commit) == IF commit.breaking THEN "breaking" ELSE commit.type

\* route that puts the commit in front of its bucket
routePrepend(acc, commit) ==
    setKey(acc, bucketOf(commit), <<commit>> \o getKey(acc, bucketOf(commit)))

\* the tail of the reduce callback: append the commit to its bucket
route(acc, commit) ==
    setKey(acc, bucketOf(commit), Append(getKey(acc, bucketOf(commit)), commit))

\* One call of the reduce callback of parseCommits on segment curr.
\* threw is "" when the callback returned.
reducer(acc, contributors, curr) ==
    LET m == recordMatch(curr)
    IN  IF ~IsDefined(m.header)
        THEN [threw |-> "TypeError", acc |-> acc, contributors |-> contributors]
        ELSE
        LET fields  == Split(Val(m.header), markerDelim)
            subject == elemAt(fields, 4)
            detail  == getCommitDetail(subject, m.body)
        IN  IF ~IsDefined(m.files)
            THEN [threw |-> "TypeError", acc |-> acc,
                  contributors |-> contributors]
            ELSE IF detail.threw # ""
            THEN [threw |-> detail.threw, acc |-> acc,
                  contributors |-> contributors]
            ELSE
            LET commit ==
                    [commitHashAbbr |-> fields[1],
                     authorName     |-> fields[2],
                     authorDate     |-> authorDateOf(elemAt(fields, 3)),
                     subject        |-> Val(subject),
                     files          |-> FilterNonEmpty(Split(Val(m.files), NL)),
                     type           |-> propertyKey(detail.type),
                     breaking       |-> detail.breaking]
            IN  [threw |-> "", acc |-> route(acc, commit),
                 contributors |-> setAdd(contributors, commit.authorName)]

\* output.split(begin).toSpliced(0, 1)
segmentsOf(output) == toSpliced01(Split(output, markerBegin))

(***************************************************************************)
(* Changelog renderer                                                      *)
(***************************************************************************)
bullet(commit) == <<"- (">> \o commit.commitHashAbbr \o <<") ">> \o commit.subject

RECURSIVE bullets(_)
bullets(commits) ==
    IF commits = <<>> THEN <<>>
    ELSE IF Len(commits) = 1 THEN bullet(commits[1])
    ELSE bullet(commits[1]) \o <<NL>> \o bullets(Tail(commits))

breakingSection(commitGroups) ==
    IF Len(getKey(commitGroups, "breaking")) > 0
    THEN <<"## ", "Breaking Changes", ":", NL>>
             \o bullets(getKey(commitGroups, "breaking"))
    ELSE <<>>

\* the keys the for-of loop of the renderer visits, in visiting order
sectionKeys(commitGroups) ==
    [i \in 1..Len(commitGroups) |-> commitGroups[i].key]

\* the loop over Object.entries(commitGroups)
RECURSIVE typeSections(_, _)
typeSections(commitGroups, keys) ==
    IF keys = <<>> THEN <<>>
    ELSE LET key     == Head(keys)
             commits == getKey(commitGroups, key)
         IN  (IF key = "breaking" \/ Len(commits) < 1
              THEN <<>>
              ELSE <<NL, "## ", commitTypeTitle(key), ":", NL>>
                       \o bullets(commits))
             \o typeSections(commitGroups, Tail(keys))

RECURSIVE mentions(_)
mentions(contributors) ==
    IF contributors = <<>> THEN <<>>
    ELSE IF Len(contributors) = 1 THEN <<"@">> \o contributors[1]
    ELSE <<"@">> \o contributors[1] \o <<", ">> \o mentions(Tail(contributors))

renderChangeLogMarkdown(commitGroups, contributors) ==
    trim(breakingSection(commitGroups)
         \o typeSections(commitGroups, sectionKeys(commitGroups))
         \o <<NL, "## ", "Thanks", ":", NL>>
         \o mentions(contributors))

(***************************************************************************)
(* The log blob: records as the log command prints them under the format   *)
(* of getGitLogFormat, followed by the --name-only file list.              *)
(***************************************************************************)
hashes == <<"a1", "b2", "c3", "d4", "e5", "f6">>

headerFields(r, i) ==
    CASE r.header = "four"  -> << <<hashes[i]>>, r.author, r.date, r.subject >>
      [] r.header = "three" -> << <<hashes[i]>>, r.author, r.date >>
      [] r.header = "five"  -> << <<hashes[i]>>, r.author, r.date, r.subject,
                                  <<"extra">> >>

getGitLogFormat(r, i) ==
    <<markerBegin>>
        \o Join(headerFields(r, i), markerDelim)
        \o (IF r.bodyMarker THEN <<markerBody>> ELSE <<>>)
        \o r.body
        \o <<markerFiles>>

logRecord(r, i) == getGitLogFormat(r, i) \o r.files

logOutput(rs) == Flatten([i \in 1..Len(rs) |-> logRecord(rs[i], i)])

\* the records the model feeds to the parser
Bodies ==
    { <<>>, <<"details">>, <<"breaking change:">>,
      <<"BREAKING CHANGE:", " drops the API">>,
      <<"details", NL, "BREAKING CHANGE:", " late">> }

Rec(author, subject, header, bodyMarker, body, files) ==
    [author |-> author, date |-> <<"17">>, subject |-> subject,
     header |-> header, bodyMarker |-> bodyMarker, body |-> body,
     files |-> files]

CleanRecords ==
    { Rec(<<"alice">>, sj, "four", TRUE, b, <<NL, "a.ts">>) :
          sj \in { <<"feat", ":", " add X">>, <<"feat", "!", ":", " drop X">> },
          b \in Bodies }
    \cup
    { Rec(<<"alice">>, sj, "four", TRUE, <<>>, <<NL, "a.ts">>) :
          sj \in { <<"fix", ":", " patch Y">>, <<"fix", "!", ":", " patch Y">> } }

OtherRecords ==
    { Rec(<<"bob">>, <<"feat", ":", " add X">>, "four", TRUE, <<>>,
          <<NL, "a.ts", NL, "b.ts", NL>>),
      Rec(<<"bob">>, <<"fix", ":", " patch Y">>, "four", TRUE, <<>>, <<NL>>),
      Rec(<<"alice">>, <<"feat", ":", " add X">>, "four", TRUE, <<>>, <<>>),
      Rec(<<"alice">>, <<"fix", "!", ":", " patch Y">>, "four", TRUE,
          <<"details">>, <<>>),
      Rec(<<"alice">>, <<"oops", ":", " did a thing">>, "four", TRUE, <<>>,
          <<NL, "a.ts">>),
      Rec(<<"alice">>, <<"did a thing">>, "four", TRUE, <<>>, <<NL, "a.ts">>),
      Rec(<<"alice">>, <<"feat", ":", " add X">>, "three", TRUE, <<>>,
          <<NL, "a.ts">>),
      Rec(<<"alice">>, <<"feat", ":", " add X">>, "five", TRUE, <<>>,
          <<NL, "a.ts">>),
      Rec(<<"alice">>, <<"feat", ":", " add X">>, "four", FALSE, <<>>,
          <<NL, "a.ts">>) }

Records == CleanRecords \cup OtherRecords

Logs == UNION { [1..n -> Records] : n \in 0..MaxRecords }

(***************************************************************************)
(* The release flow (release.ts) and generateChangelog                     *)
(***************************************************************************)
VARIABLES
    pc,            \* position in release.ts
    hasToken,      \* process.env.GITHUB_TOKEN is set
    dryRun,        \* answer of the prompt
    records,       \* the commits of the queried range
    output,        \* stdout of the log command
    idx,           \* next segment the reduce of parseCommits visits
    commitGroups,  \* accumulator of the reduce
    contributors,  \* the contributor set
    threw,         \* "" or the name of the error that ended the run
    logTo,         \* upper bound handed to getCommits
    markdown,      \* the rendered changelog
    tagged,        \* releaseVersion created the version commit and tag
    pushed,        \* git push --follow-tags ran
    released,      \* the release-creation request was sent
    published      \* releasePublish ran

vars == <<pc, hasToken, dryRun, records, output, idx, commitGroups,
          contributors, threw, logTo, markdown, tagged, pushed, released,
          published>>

segments == segmentsOf(output)

\* to: dryRun ? 'HEAD' : `${to}^`
logUpperBound(dry) == IF dry THEN "HEAD" ELSE "to^"

\* afterPrint without the early return of the dry run
afterPrintPush(dry) == "push"

\* where generateChangelog goes after printing the markdown
afterPrint(dry) == IF dry THEN "publish" ELSE "push"

\* rejected with the rejection of generateChangelog caught and dropped
rejectedCaught == "publish"

\* where the run goes when an awaited call of release.ts rejects: nothing
\* catches it, the process ends
rejected == "aborted"

\* the guard of createGitHubRelease
tokenMissing(token) == ~token

Init ==
    /\ pc = "start"
    /\ hasToken \in BOOLEAN
    /\ dryRun = FALSE
    /\ records = <<>>
    /\ output = <<>>
    /\ idx = 1
    /\ commitGroups = <<>>
    /\ contributors = <<>>
    /\ threw = ""
    /\ logTo = ""
    /\ markdown = <<>>
    /\ tagged = FALSE
    /\ pushed = FALSE
    /\ released = FALSE
    /\ published = FALSE

GetLatestVersionTag ==
    /\ pc = "start"
    /\ \E valid \in BOOLEAN :
          IF valid
          THEN pc' = "prompt" /\ threw' = threw
          ELSE pc' = rejected /\ threw' = "InvalidSemverError"
    /\ UNCHANGED <<hasToken, dryRun, records, output, idx, commitGroups,
                   contributors, logTo, markdown, tagged, pushed, released,
                   published>>

RunPrompt ==
    /\ pc = "prompt"
    /\ \E d \in BOOLEAN : dryRun' = d
    /\ pc' = "version"
    /\ UNCHANGED <<hasToken, records, output, idx, commitGroups, contributors,
                   threw, logTo, markdown, tagged, pushed, released, published>>

ReleaseVersion ==
    /\ pc = "version"
    /\ tagged' = ~dryRun
    /\ pc' = "changelog"
    /\ UNCHANGED <<hasToken, dryRun, records, output, idx, commitGroups,
                   contributors, threw, logTo, markdown, pushed, released,
                   published>>

\* generateChangelog -> renderChangeLogMarkdown -> getCommits: the log is
\* read and parseCommits starts its reduce.
GetCommits ==
    /\ pc = "changelog"
    /\ logTo' = logUpperBound(dryRun)
    /\ \E rs \in Logs :
          /\ records' = rs
          /\ output' = logOutput(rs)
    /\ idx' = 1
    /\ commitGroups' = <<>>
    /\ contributors' = <<>>
    /\ pc' = "reduce"
    /\ UNCHANGED <<hasToken, dryRun, threw, markdown, tagged, pushed, released,
                   published>>

\* one iteration of the reduce of parseCommits
ReduceStep ==
    /\ pc = "reduce"
    /\ idx <= Len(segments)
    /\ LET r == reducer(commitGroups, contributors, segments[idx])
       IN  IF r.threw # ""
           THEN /\ pc' = rejected
                /\ threw' = r.threw
                /\ UNCHANGED <<idx, commitGroups, contributors>>
           ELSE /\ commitGroups' = r.acc
                /\ contributors' = r.contributors
                /\ idx' = idx + 1
                /\ UNCHANGED <<pc, threw>>
    /\ UNCHANGED <<hasToken, dryRun, records, output, logTo, markdown, tagged,
                   pushed, released, published>>

\* parseCommits returns; the markdown is rendered and printed; a dry run
\* returns from generateChangelog here.
Render ==
    /\ pc = "reduce"
    /\ idx > Len(segments)
    /\ markdown' = renderChangeLogMarkdown(commitGroups, contributors)
    /\ pc' = afterPrint(dryRun)
    /\ UNCHANGED <<hasToken, dryRun, records, output, idx, commitGroups,
                   contributors, threw, logTo, tagged, pushed, released,
                   published>>

CreateGitHubPush ==
    /\ pc = "push"
    /\ pushed' = TRUE
    /\ pc' = "release"
    /\ UNCHANGED <<hasToken, dryRun, records, output, idx, commitGroups,
                   contributors, threw, logTo, markdown, tagged, released,
                   published>>

CreateGitHubRelease ==
    /\ pc = "release"
    /\ IF tokenMissing(hasToken)
       THEN /\ pc' = rejected
            /\ threw' = "NoTokenError"
            /\ UNCHANGED released
       ELSE /\ released' = TRUE
            /\ pc' = "publish"
            /\ UNCHANGED threw
    /\ UNCHANGED <<hasToken, dryRun, records, output, idx, commitGroups,
                   contributors, logTo, markdown, tagged, pushed, published>>

ReleasePublish ==
    /\ pc = "publish"
    /\ published' = TRUE
    /\ pc' = "exit"
    /\ UNCHANGED <<hasToken, dryRun, records, output, idx, commitGroups,
                   contributors, threw, logTo, markdown, tagged, pushed,
                   released>>

Exit ==
    /\ pc = "exit"
    /\ pc' = "done"
    /\ UNCHANGED <<hasToken, dryRun, records, output, idx, commitGroups,
                   contributors, threw, logTo, markdown, tagged, pushed,
                   released, published>>

Next ==
    \/ GetLatestVersionTag
    \/ RunPrompt
    \/ ReleaseVersion
    \/ GetCommits
    \/ ReduceStep
    \/ Render
    \/ CreateGitHubPush
    \/ CreateGitHubRelease
    \/ ReleasePublish
    \/ Exit

Spec == Init /\ [][Next]_vars

(***************************************************************************)
(* Vocabulary of the properties                                            *)
(***************************************************************************)
\* the reduce of parseCommits threw
parseFailed == threw \in {"TypeError", "CommitTypeError"}

\* parseCommits returned its result
parseReturned == pc \in {"push", "release", "publish", "exit", "done"}
                    \/ threw = "NoTokenError"

\* record i of the log went through the reduce callback without a throw
processed(i) == i \in 1..Len(records) /\ i < idx

\* the commit of record i is in bucket key
inBucket(key, i) ==
    \E k \in 1..Len(getKey(commitGroups, key)) :
        getKey(commitGroups, key)[k].commitHashAbbr = <<hashes[i]>>

bucketKeys == {commitGroups[e].key : e \in 1..Len(commitGroups)}

\* the places (bucket, position) where the commit of record i sits
placesOf(i) ==
    {<<e, k>> \in (1..Len(commitGroups)) \X (1..MaxRecords + 1) :
        /\ k <= Len(commitGroups[e].commits)
        /\ commitGroups[e].commits[k].commitHashAbbr = <<hashes[i]>>}

RECURSIVE sumLen(_)
sumLen(obj) ==
    IF obj = <<>> THEN 0 ELSE Len(Head(obj).commits) + sumLen(Tail(obj))

\* the record as the input contract describes it
typeWord(r)   == r.subject[1]
knownType(r)  == typeWord(r) \in {"build", "chore", "ci", "docs", "feat", "fix",
                                  "perf", "refactor", "revert", "style", "test"}
bangSubject(r) == /\ knownType(r) /\ Len(r.subject) >= 3
                  /\ r.subject[2] = "!" /\ r.subject[3] = ":"
plainSubject(r) == knownType(r) /\ Len(r.subject) >= 2 /\ r.subject[2] = ":"
goodSubject(r) == bangSubject(r) \/ plainSubject(r)

\* four header fields, both markers, a classifiable subject; body and files
\* may be empty or absent
wellFormed(r) == r.header = "four" /\ r.bodyMarker /\ goodSubject(r)

\* the first line of the body
firstLine(body) == Head(Split(body, NL))

lowerBC(t) == t \in {"breaking change:", "BREAKING CHANGE:", "Breaking Change:"}

\* the first line of the body is "breaking change:" and nothing else
bodyFirstLineIsMarker(r) ==
    Len(firstLine(r.body)) = 1 /\ lowerBC(firstLine(r.body)[1])

\* the body begins with "breaking change:"
bodyBeginsWithMarker(r) == r.body # <<>> /\ lowerBC(r.body[1])

\* the section titles of the rendered document, in order
RECURSIVE titlesOf(_)
titlesOf(doc) ==
    IF Len(doc) < 2 THEN <<>>
    ELSE IF doc[1] = "## " THEN <<doc[2]>> \o titlesOf(Tail(Tail(doc)))
    ELSE titlesOf(Tail(doc))

\* rank of a section title in the fixed order: breaking, then the table
titleRank(t) ==
    IF t = "Breaking Changes" THEN 0
    ELSE IF t = "Thanks" THEN Len(commitTypeKeys) + 1
    ELSE CHOOSE i \in 1..Len(commitTypeKeys) :
             commitTypeTitle(commitTypeKeys[i]) = t

(***************************************************************************)
(* C1: for every well-formed log of N records parseCommits returns groups  *)
(* in which every record is exactly one commit in exactly one bucket, so   *)
(* the bucket lengths add up to N.                                         *)
(***************************************************************************)
C1_EveryRecordOnce ==
    ( /\ pc \notin {"start", "prompt", "version", "changelog", "reduce"}
      /\ records # <<>>
      /\ \A i \in 1..Len(records) : wellFormed(records[i]) )
    => /\ parseReturned
       /\ sumLen(commitGroups) = Len(records)
       /\ \A i \in 1..Len(records) : Cardinality(placesOf(i)) = 1

(***************************************************************************)
(* C2: a commit whose subject has "!" between a recognized type and the    *)
(* colon is in the breaking bucket and not in the bucket of its type,      *)
(* whatever its body; no bucket of a type holds a commit with breaking     *)
(* = true.                                                                 *)
(***************************************************************************)
C2_BangOnlyInBreaking ==
    /\ \A i \in 1..Len(records) :
          (processed(i) /\ bangSubject(records[i]))
          => /\ inBucket("breaking", i)
             /\ ~inBucket(typeWord(records[i]), i)
             /\ Cardinality(placesOf(i)) = 1
    /\ \A e \in 1..Len(commitGroups) :
          commitGroups[e].key # "breaking"
          => \A k \in 1..Len(commitGroups[e].commits) :
                 ~commitGroups[e].commits[k].breaking

C2_Witness ==
    /\ pc = "done"
    /\ \E i \in 1..Len(records) :
          /\ bangSubject(records[i])
          /\ records[i].body = <<"details">>
          /\ inBucket("breaking", i)
    /\ \E j \in 1..Len(records) :
          ~bangSubject(records[j]) /\ inBucket(typeWord(records[j]), j)

(***************************************************************************)
(* C3 as stated: a commit whose body's first line is "breaking change:"    *)
(* (any letter case) is in the breaking bucket whatever its subject; a     *)
(* commit with neither "!" nor such a body is in the bucket of its type.   *)
(***************************************************************************)
C3_FirstLineEquals ==
    \A i \in 1..Len(records) :
        processed(i)
        => /\ bodyFirstLineIsMarker(records[i]) => inBucket("breaking", i)
           /\ (~bangSubject(records[i]) /\ ~bodyFirstLineIsMarker(records[i]))
              => inBucket(typeWord(records[i]), i)

(***************************************************************************)
(* C3 amended: a commit whose body begins with "breaking change:" (any     *)
(* letter case, with or without text after it on that line) is in the      *)
(* breaking bucket whatever its subject; a commit with neither "!" nor a   *)
(* body beginning so is in the bucket of its type.                         *)
(***************************************************************************)
C3_BodyBeginsWith ==
    \A i \in 1..Len(records) :
        processed(i)
        => /\ bodyBeginsWithMarker(records[i])
              => (inBucket("breaking", i) /\ ~inBucket(typeWord(records[i]), i))
           /\ (~bangSubject(records[i]) /\ ~bodyBeginsWithMarker(records[i]))
              => (inBucket(typeWord(records[i]), i) /\ ~inBucket("breaking", i))

C3_Witness ==
    /\ pc = "done"
    /\ \E i \in 1..Len(records) :
          /\ ~bangSubject(records[i])
          /\ records[i].body = <<"BREAKING CHANGE:", " drops the API">>
          /\ inBucket("breaking", i)
    /\ \E j \in 1..Len(records) :
          /\ records[j].body = <<"details", NL, "BREAKING CHANGE:", " late">>
          /\ inBucket("feat", j)

(***************************************************************************)
(* C4: a record whose subject lacks a prefix made of an enumerated type,   *)
(* an optional "!" and a colon makes parseCommits fail as a whole: nothing *)
(* is returned, and the record is never passed over, whatever its position.*)
(***************************************************************************)
badPrefix(r) == r.header # "three" /\ ~goodSubject(r)

C4_UnknownTypeFails ==
    /\ \A i \in 1..Len(records) : processed(i) => ~badPrefix(records[i])
    /\ ( /\ pc # "reduce"
         /\ \E i \in 1..Len(records) : badPrefix(records[i]) )
       => (parseFailed /\ pc = "aborted" /\ markdown = <<>>)

C4_Witness ==
    /\ threw = "CommitTypeError"
    /\ idx = 2
    /\ Len(records) >= 2
    /\ badPrefix(records[2])
    /\ records[2].subject = <<"oops", ":", " did a thing">>
    /\ inBucket("feat", 1)
    /\ markdown = <<>>

(***************************************************************************)
(* C5: a record whose header does not split into exactly four fields       *)
(* (fewer, or more) makes parseCommits fail; such a record never yields a  *)
(* commit in any bucket.                                                   *)
(***************************************************************************)
C5_WrongFieldCountFails ==
    /\ \A i \in 1..Len(records) :
          records[i].header # "four" => (~processed(i) /\ placesOf(i) = {})
    /\ ( /\ pc # "reduce"
         /\ \E i \in 1..Len(records) : records[i].header # "four" )
       => parseFailed

(***************************************************************************)
(* C6: a record with a valid header and subject whose body and/or files    *)
(* part is absent parses: the parse does not fail at it, and with the      *)
(* files part absent its commit has an empty file list.                    *)
(***************************************************************************)
C6_AbsentPartsParse ==
    \A i \in 1..Len(records) :
        ( /\ wellFormed(records[i])
          /\ (records[i].body = <<>> \/ records[i].files = <<>>) )
        => /\ ~(parseFailed /\ idx = i)
           /\ (processed(i) /\ records[i].files = <<>>)
              => \E e \in 1..Len(commitGroups) :
                   \E k \in 1..Len(commitGroups[e].commits) :
                      /\ commitGroups[e].commits[k].commitHashAbbr = <<hashes[i]>>
                      /\ commitGroups[e].commits[k].files = <<>>

(***************************************************************************)
(* C7: the rendered document has the "Breaking Changes" section first and  *)
(* then the sections of the non-empty type buckets in the order of the     *)
(* category table, whatever the order in which the types occur in the log. *)
(***************************************************************************)
C7_FixedSectionOrder ==
    \A a, b \in 1..Len(titlesOf(markdown)) :
        a < b => titleRank(titlesOf(markdown)[a]) < titleRank(titlesOf(markdown)[b])

(***************************************************************************)
(* C8: without GITHUB_TOKEN the error is raised before the version commit  *)
(* and tag are created and before git push --follow-tags runs.             *)
(***************************************************************************)
C8_NoTokenAbortsBeforeMutation ==
    threw = "NoTokenError" => (~tagged /\ ~pushed)

(***************************************************************************)
(* C9: in a dry run generateChangelog never pushes and never creates a     *)
(* release: it returns after printing; the log is queried up to HEAD in a  *)
(* dry run and up to the parent of the release tag otherwise.              *)
(***************************************************************************)
C9_DryRunNoRemoteWrite ==
    /\ dryRun => (~pushed /\ ~released /\ pc \notin {"push", "release"})
    /\ logTo # "" => logTo = (IF dryRun THEN "HEAD" ELSE "to^")

C9_Witness ==
    /\ dryRun
    /\ pc = "done"
    /\ logTo = "HEAD"
    /\ titlesOf(markdown) = <<"Features", "Thanks">>

(***************************************************************************)
(* C10: when parsing the log fails, git push --follow-tags, the release    *)
(* request and the publish step are never executed.                        *)
(***************************************************************************)
C10_ParseErrorNoRemoteWrite ==
    parseFailed => (~pushed /\ ~released /\ ~published)

C10_Witness ==
    /\ parseFailed
    /\ pc = "aborted"
    /\ hasToken
    /\ tagged
    /\ idx = 2

(***************************************************************************)
(* C11: after a successful parse the contributor set holds exactly the     *)
(* distinct author names of the parsed commits, each once, and the Thanks  *)
(* section of the rendered document lists every member once as @name.      *)
(***************************************************************************)
\* the part of the document after the title line of the Thanks section
RECURSIVE thanksLine(_)
thanksLine(doc) ==
    IF Len(doc) < 3 THEN <<>>
    ELSE IF doc[1] = "## " /\ doc[2] = "Thanks" /\ doc[3] = ":"
    THEN SubSeq(doc, 4, Len(doc))
    ELSE thanksLine(Tail(doc))

\* the positions of the Thanks line that mention name
mentionsOf(line, name) ==
    {k \in 1..(Len(line) - 1) : line[k] = "@" /\ <<line[k + 1]>> = name}

authorsOf(rs) == {rs[i].author : i \in 1..Len(rs)}

C11_ContributorsAreAuthors ==
    parseReturned
    => /\ {contributors[k] : k \in 1..Len(contributors)} = authorsOf(records)
       /\ \A k, l \in 1..Len(contributors) :
              contributors[k] = contributors[l] => k = l
       /\ \A k \in 1..Len(contributors) :
              Cardinality(mentionsOf(thanksLine(markdown), contributors[k])) = 1
       /\ Cardinality({k \in 1..Len(thanksLine(markdown)) :
                          thanksLine(markdown)[k] = "@"}) = Len(contributors)

C11_Witness ==
    /\ pc = "done"
    /\ Len(records) = 2
    /\ records[1].author = <<"alice">>
    /\ records[2].author = <<"alice">>
    /\ contributors = << <<"alice">> >>
    /\ thanksLine(markdown) = <<NL, "@", "alice">>

(***************************************************************************)
(* C12: within every bucket the commits are in the order of their records  *)
(* in the log, and the bullets of each rendered section keep that order.   *)
(***************************************************************************)
\* the position in the log of the record with this abbreviated hash
recordOf(hash) == CHOOSE i \in 1..Len(hashes) : <<hashes[i]>> = hash

\* the bucket a section title stands for
keyOfTitle(title) ==
    IF title = "Breaking Changes" THEN "breaking"
    ELSE CHOOSE key \in {commitTypeKeys[i] : i \in 1..Len(commitTypeKeys)} :
             commitTypeTitle(key) = title

\* the hashes of the bullets printed under the section of title, in order;
\* inSection tells whether the walk is inside that section
RECURSIVE bulletHashes(_, _, _)
bulletHashes(doc, title, inSection) ==
    IF Len(doc) < 2 THEN <<>>
    ELSE IF doc[1] = "## "
    THEN bulletHashes(Tail(Tail(doc)), title, doc[2] = title)
    ELSE IF doc[1] = "- (" /\ inSection
    THEN <<doc[2]>> \o bulletHashes(Tail(Tail(doc)), title, inSection)
    ELSE bulletHashes(Tail(doc), title, inSection)

bucketHashes(key) ==
    [k \in 1..Len(getKey(commitGroups, key)) |->
        getKey(commitGroups, key)[k].commitHashAbbr[1]]

C12_LogOrderInBuckets ==
    /\ \A e \in 1..Len(commitGroups) :
          \A k, l \in 1..Len(commitGroups[e].commits) :
              k < l <=> recordOf(commitGroups[e].commits[k].commitHashAbbr)
                          < recordOf(commitGroups[e].commits[l].commitHashAbbr)
    /\ parseReturned
       => \A t \in {titlesOf(markdown)[a] : a \in 1..Len(titlesOf(markdown))}
                      \ {"Thanks"} :
              bulletHashes(markdown, t, FALSE) = bucketHashes(keyOfTitle(t))

C12_Witness ==
    /\ pc = "done"
    /\ Len(getKey(commitGroups, "breaking")) = 2
    /\ bucketHashes("breaking") = <<"a1", "b2">>
    /\ bulletHashes(markdown, "Breaking Changes", FALSE) = <<"a1", "b2">>
    /\ records[1].subject # records[2].subject

====
